---- MODULE Spec2Model ----
(***************************************************************************)
(* microcms-schema-adapter: conversion of a microCMS API schema (a list   *)
(* of typed fields plus a pool of reusable custom-field definitions) to   *)
(* JSON Schema draft-07 (src/src/converters/to-json-schema.ts).           *)
(*                                                                         *)
(* Values.  A JSON-Schema node is a TLA+ record whose domain is the set   *)
(* of keys the JavaScript object owns (an optional key that the code does *)
(* not set is absent from the domain).  The two objects the code fills by *)
(* computed-key assignment, `properties` and the record bundleToJsonSchema*)
(* returns, are sequences of <<key, value>> pairs in JavaScript own-key   *)
(* order (ObjSet).  A value that may be undefined/null is a sequence of   *)
(* length at most one (None, Some).  A Map is a function, a Set is a set. *)
(***************************************************************************)
EXTENDS Integers, Sequences, FiniteSets, TLC

VARIABLES
    call,           \* the call of an exported function: its name and arguments
    result,         \* what that call returned (None while there is none)
    pc,             \* "called", "running" (the call executing step by step), "returned"
    stack,          \* the activation records of the executing call, innermost last
    heap,           \* the Set objects allocated so far; a frame holds a Set by its index
    ret             \* the value just returned to the innermost frame: None when there
                    \* is none, else Some(m) with m the optional schema returned (None
                    \* for null)

vars == <<call, result, pc, stack, heap, ret>>

----------------------------------------------------------------------------
(* Optional values and records with optional keys *)

None == <<>>
Some(v) == <<v>>
IsSome(m) == Len(m) = 1
Unwrap(m) == m[1]

EmptyRecord == [k \in {} |-> TRUE]
Has(rec, key) == key \in DOMAIN rec
Get(rec, key) == IF Has(rec, key) THEN Some(rec[key]) ELSE None

\* JavaScript truthiness of an optional boolean / an optional string
TruthyFlag(rec, key) == Has(rec, key) /\ rec[key] = TRUE
TruthyString(rec, key) == Has(rec, key) /\ rec[key] # ""

----------------------------------------------------------------------------
(* JavaScript ordinary objects with computed keys: own keys are ordered    *)
(* array-index keys first, ascending, then the other string keys in the    *)
(* order they were first assigned; assigning an existing key replaces its  *)
(* value in place.                                                         *)

ArrayIndex == ("0" :> 0) @@ ("1" :> 1) @@ ("2" :> 2)
IsArrayIndex(k) == k \in DOMAIN ArrayIndex

ObjKeys(obj) == [i \in 1..Len(obj) |-> obj[i][1]]
ObjHas(obj, k) == \E i \in 1..Len(obj) : obj[i][1] = k
ObjGet(obj, k) == obj[CHOOSE i \in 1..Len(obj) : obj[i][1] = k][2]

ObjSet(obj, k, v) ==
    IF ObjHas(obj, k)
    THEN [i \in 1..Len(obj) |-> IF obj[i][1] = k THEN <<k, v>> ELSE obj[i]]
    ELSE LET before ==
                 IF IsArrayIndex(k)
                 THEN Cardinality({i \in 1..Len(obj) :
                          /\ IsArrayIndex(obj[i][1])
                          /\ ArrayIndex[obj[i][1]] < ArrayIndex[k]})
                 ELSE Len(obj)
         IN SubSeq(obj, 1, before) \o <<<<k, v>>>> \o SubSeq(obj, before + 1, Len(obj))

----------------------------------------------------------------------------
(* The conversion *)

Draft07 == "http://json-schema.org/draft-07/schema#"

ExtensionKeys == {"x-microcms-field-id", "x-microcms-field-name", "x-microcms-kind"}

RECURSIVE convertField(_, _, _, _)
RECURSIVE convertFieldByKind(_, _, _, _)
RECURSIVE convertRepeater(_, _, _, _)
RECURSIVE convertRepeaterLoop(_, _, _, _, _)
RECURSIVE convertCustom(_, _, _, _)
RECURSIVE resolveCustomField(_, _, _, _)
RECURSIVE resolveCustomFieldLoop(_, _, _, _, _)
RECURSIVE toJsonSchemaLoop(_, _, _, _)
RECURSIVE buildCustomFieldMapLoop(_, _)
RECURSIVE bundleToJsonSchemaLoop(_, _)

\* for (const def of customFields) map.set(def.createdAt, def), first n entries
buildCustomFieldMapLoop(defs, n) ==
    IF n = 0 THEN EmptyRecord
    ELSE (defs[n].createdAt :> defs[n]) @@ buildCustomFieldMapLoop(defs, n - 1)

buildCustomFieldMap_keepsFirst(maybeCustomFields) ==
    IF ~IsSome(maybeCustomFields) THEN EmptyRecord
    ELSE LET defs == Unwrap(maybeCustomFields)
             reversed == [i \in 1..Len(defs) |-> defs[Len(defs) + 1 - i]]
         IN buildCustomFieldMapLoop(reversed, Len(reversed))

buildCustomFieldMap(maybeCustomFields) ==
    IF ~IsSome(maybeCustomFields) THEN EmptyRecord
    ELSE buildCustomFieldMapLoop(Unwrap(maybeCustomFields), Len(Unwrap(maybeCustomFields)))

extensionsOf_labelAsId(field) ==
    ("x-microcms-field-id" :> field.name)
    @@ ("x-microcms-field-name" :> field.name)
    @@ ("x-microcms-kind" :> field.kind)

\* the three x-microcms-* keys of a field
extensionsOf(field) ==
    ("x-microcms-field-id" :> field.fieldId)
    @@ ("x-microcms-field-name" :> field.name)
    @@ ("x-microcms-kind" :> field.kind)

withExtensions_dropsBase(base, field, opts) ==
    IF TruthyFlag(opts, "includeExtensions")
    THEN extensionsOf(field)
    ELSE base

\* { ...base, ...ext } when options?.includeExtensions, else base
withExtensions(base, field, opts) ==
    IF TruthyFlag(opts, "includeExtensions")
    THEN extensionsOf(field) @@ base
    ELSE base

convertField(field, customFieldMap, visited, opts) ==
    withExtensions(convertFieldByKind(field, customFieldMap, visited, opts), field, opts)

relationSchema ==
    [type |-> "object",
     properties |-> << <<"id", [type |-> "string"]>> >>,
     required |-> <<"id">>]

mediaSchema ==
    [type |-> "object",
     properties |-> << <<"url", [type |-> "string", format |-> "uri"]>>,
                       <<"height", [type |-> "number"]>>,
                       <<"width", [type |-> "number"]>> >>,
     required |-> <<"url">>]

selectValues(field) == [i \in 1..Len(field.selectItems) |-> field.selectItems[i].value]

numberSchema_truthyBounds(field) ==
    (IF Has(field, "numberMax") /\ field.numberMax # 0
     THEN [maximum |-> field.numberMax] ELSE EmptyRecord)
    @@ (IF Has(field, "numberMin") /\ field.numberMin # 0
        THEN [minimum |-> field.numberMin] ELSE EmptyRecord)
    @@ [type |-> "number"]

numberSchema(field) ==
    (IF Has(field, "numberMax") THEN [maximum |-> field.numberMax] ELSE EmptyRecord)
    @@ (IF Has(field, "numberMin") THEN [minimum |-> field.numberMin] ELSE EmptyRecord)
    @@ [type |-> "number"]

booleanSchema(field) ==
    (IF Has(field, "booleanInitialValue")
     THEN [default |-> field.booleanInitialValue] ELSE EmptyRecord)
    @@ [type |-> "boolean"]

convertFieldByKind(field, customFieldMap, visited, opts) ==
    CASE field.kind = "text" -> [type |-> "string"]
      [] field.kind = "textArea" -> [type |-> "string"]
      [] field.kind = "richEditorV2" -> [type |-> "string", contentMediaType |-> "text/html"]
      [] field.kind = "select" ->
            IF field.multipleSelect
            THEN [type |-> "array", items |-> [type |-> "string", enum |-> selectValues(field)]]
            ELSE [type |-> "string", enum |-> selectValues(field)]
      [] field.kind = "number" -> numberSchema(field)
      [] field.kind = "date" -> [type |-> "string", format |-> "date-time"]
      [] field.kind = "boolean" -> booleanSchema(field)
      [] field.kind = "media" -> mediaSchema
      [] field.kind = "relation" -> relationSchema
      [] field.kind = "relationList" -> [type |-> "array", items |-> relationSchema]
      [] field.kind = "repeater" ->
            convertRepeater(field.customFieldCreatedAtList, customFieldMap, visited, opts)
      [] field.kind = "custom" ->
            convertCustom(field.customFieldCreatedAt, customFieldMap, visited, opts)
      [] OTHER -> EmptyRecord

\* the schemas pushed by the loop over the first n listed identifiers
convertRepeaterLoop(createdAtList, n, customFieldMap, visited, opts) ==
    IF n = 0 THEN <<>>
    ELSE LET schemas == convertRepeaterLoop(createdAtList, n - 1, customFieldMap, visited, opts)
             resolved == resolveCustomField(createdAtList[n], customFieldMap, visited, opts)
         IN IF IsSome(resolved) THEN Append(schemas, Unwrap(resolved)) ELSE schemas

repeaterSchema_alwaysOneOf(schemas) ==
    IF Len(schemas) = 0 THEN [type |-> "array"]
    ELSE [type |-> "array", items |-> [oneOf |-> schemas]]

repeaterSchema(schemas) ==
    IF Len(schemas) = 0 THEN [type |-> "array"]
    ELSE IF Len(schemas) = 1 THEN [type |-> "array", items |-> schemas[1]]
    ELSE [type |-> "array", items |-> [oneOf |-> schemas]]

convertRepeater(createdAtList, customFieldMap, visited, opts) ==
    repeaterSchema(convertRepeaterLoop(createdAtList, Len(createdAtList),
                                       customFieldMap, visited, opts))

untypedObject_empty == EmptyRecord

\* the fallback of convertCustom: { type: "object" }
untypedObject == [type |-> "object"]

convertCustom(createdAt, customFieldMap, visited, opts) ==
    LET resolved == resolveCustomField(createdAt, customFieldMap, visited, opts)
    IN IF IsSome(resolved) THEN Unwrap(resolved) ELSE untypedObject

pushField_keepsFirst(acc, field, converted) ==
    [properties |-> IF ObjHas(acc.properties, field.fieldId)
                    THEN acc.properties
                    ELSE ObjSet(acc.properties, field.fieldId, converted),
     required |-> IF TruthyFlag(field, "required")
                  THEN Append(acc.required, field.fieldId)
                  ELSE acc.required]

pushField_anyRequiredKey(acc, field, converted) ==
    [properties |-> ObjSet(acc.properties, field.fieldId, converted),
     required |-> IF Has(field, "required")
                  THEN Append(acc.required, field.fieldId)
                  ELSE acc.required]

\* one pass of a field loop: properties[field.fieldId] = converted; push if required
pushField(acc, field, converted) ==
    [properties |-> ObjSet(acc.properties, field.fieldId, converted),
     required |-> IF TruthyFlag(field, "required")
                  THEN Append(acc.required, field.fieldId)
                  ELSE acc.required]

emptyAccumulators == [properties |-> <<>>, required |-> <<>>]

\* properties and required after the loop over the first n fields of a definition
resolveCustomFieldLoop(fields, n, customFieldMap, nextVisited, opts) ==
    IF n = 0 THEN emptyAccumulators
    ELSE pushField(resolveCustomFieldLoop(fields, n - 1, customFieldMap, nextVisited, opts),
                   fields[n],
                   convertField(fields[n], customFieldMap, nextVisited, opts))

objectSchema(acc) ==
    (IF Len(acc.required) > 0 THEN [required |-> acc.required] ELSE EmptyRecord)
    @@ [type |-> "object", properties |-> acc.properties]

circularSchema_anything == EmptyRecord

\* the permissive object schema returned for a circular reference
circularSchema == [type |-> "object"]

circularResult_null == None

\* what resolveCustomField returns for an identifier on the path: the schema, not null
circularResult == Some(circularSchema)

extendVisited_parentOnly(visited, createdAt) == {createdAt}

extendVisited(visited, createdAt) == visited \cup {createdAt}

copyAndAdd_inPlace(sets, visitedRef, createdAt) ==
    Append([sets EXCEPT ![visitedRef] = extendVisited(@, createdAt)],
           extendVisited(sets[visitedRef], createdAt))

copyAndAdd_fromEverySet(sets, visitedRef, createdAt) ==
    Append(sets, UNION {sets[i] : i \in 1..Len(sets)} \cup {createdAt})

\* the Set objects after nextVisited = new Set(visited); nextVisited.add(createdAt):
\* a new object, the last, holds the copy with createdAt added
copyAndAdd(sets, visitedRef, createdAt) ==
    Append(sets, extendVisited(sets[visitedRef], createdAt))

onPath_never(createdAt, visited) == FALSE

\* visited.has(createdAt)
onPath(createdAt, visited) == createdAt \in visited

resolveCustomField(createdAt, customFieldMap, visited, opts) ==
    IF onPath(createdAt, visited) THEN circularResult
    ELSE IF ~Has(customFieldMap, createdAt) THEN None
    ELSE LET def == customFieldMap[createdAt]
             nextVisited == extendVisited(visited, createdAt)
         IN Some(objectSchema(resolveCustomFieldLoop(def.fields, Len(def.fields),
                                                     customFieldMap, nextVisited, opts)))

initialVisited == {}

\* properties and required after the loop over the first n top-level fields
toJsonSchemaLoop(apiFields, n, customFieldMap, opts) ==
    IF n = 0 THEN emptyAccumulators
    ELSE pushField(toJsonSchemaLoop(apiFields, n - 1, customFieldMap, opts),
                   apiFields[n],
                   convertField(apiFields[n], customFieldMap, initialVisited, opts))

titleOf(opts) ==
    IF TruthyString(opts, "title") THEN [title |-> opts.title] ELSE EmptyRecord

envelope(acc, opts) ==
    (IF Len(acc.required) > 0 THEN [required |-> acc.required] ELSE EmptyRecord)
    @@ titleOf(opts)
    @@ ("$schema" :> Draft07)
    @@ [type |-> "object", properties |-> acc.properties]

toJsonSchema(schema, opts) ==
    LET customFieldMap == buildCustomFieldMap(Get(schema, "customFields"))
    IN envelope(toJsonSchemaLoop(schema.apiFields, Len(schema.apiFields),
                                 customFieldMap, opts),
                opts)

\* result[entry.endpoint] = toJsonSchema(entry.api, {title: entry.endpoint}), first n entries
bundleToJsonSchemaLoop(apis, n) ==
    IF n = 0 THEN <<>>
    ELSE ObjSet(bundleToJsonSchemaLoop(apis, n - 1),
                apis[n].endpoint,
                toJsonSchema(apis[n].api, [title |-> apis[n].endpoint]))

bundleToJsonSchema(bundle) == bundleToJsonSchemaLoop(bundle.apis, Len(bundle.apis))

----------------------------------------------------------------------------
(* The inputs explored *)

\* total number of field definitions of one API schema (apiFields plus the
\* fields of every reusable definition)
MaxFields == 3
\* length of a repeater's customFieldCreatedAtList
MaxRepeat == 2
\* number of entries of a bundle
MaxApis == 2

CreatedAts == {"cf-a", "cf-b"}

TitleField == [fieldId |-> "title", name |-> "Title", kind |-> "text", required |-> TRUE]
ChildField == [fieldId |-> "child", name |-> "Child", kind |-> "custom",
               customFieldCreatedAt |-> "cf-a"]
OtherField == [fieldId |-> "1", name |-> "Other", kind |-> "custom",
               customFieldCreatedAt |-> "cf-b", required |-> TRUE]
BlocksField == [fieldId |-> "title", name |-> "Blocks", kind |-> "repeater",
                customFieldCreatedAtList |-> <<"cf-b", "cf-a">>, required |-> FALSE]

\* the fields of the schemas explored in full: a scalar, the two single
\* composites, a repeater; two of them share a fieldId, one has an
\* array-index fieldId
Catalogue == {TitleField, ChildField, OtherField, BlocksField}

SelectItems == <<[id |-> "a", value |-> "A"], [id |-> "b", value |-> "B"]>>

\* one field of every scalar kind and shape
LeafFields ==
    {[fieldId |-> "body", name |-> "Body", kind |-> "textArea"],
     [fieldId |-> "content", name |-> "Content", kind |-> "richEditorV2", required |-> TRUE],
     [fieldId |-> "process", name |-> "Process", kind |-> "select",
      multipleSelect |-> FALSE, selectItems |-> SelectItems],
     [fieldId |-> "tags", name |-> "Tags", kind |-> "select",
      multipleSelect |-> TRUE, selectItems |-> SelectItems],
     [fieldId |-> "price", name |-> "Price", kind |-> "number"],
     [fieldId |-> "price", name |-> "Price", kind |-> "number", numberMin |-> 0],
     [fieldId |-> "price", name |-> "Price", kind |-> "number", numberMax |-> 0],
     [fieldId |-> "price", name |-> "Price", kind |-> "number",
      numberMin |-> 0, numberMax |-> 100],
     [fieldId |-> "publishedAt", name |-> "Published", kind |-> "date"],
     [fieldId |-> "draft", name |-> "Draft", kind |-> "boolean"],
     [fieldId |-> "draft", name |-> "Draft", kind |-> "boolean",
      booleanInitialValue |-> FALSE],
     [fieldId |-> "image", name |-> "Image", kind |-> "media"],
     [fieldId |-> "author", name |-> "Author", kind |-> "relation",
      referencedApiEndpoint |-> "authors"],
     [fieldId |-> "related", name |-> "Related", kind |-> "relationList",
      referencedApiEndpoint |-> "posts", required |-> TRUE]}

RepeaterLists == UNION {[1..n -> CreatedAts] : n \in 0..MaxRepeat}

RepeaterField(list) ==
    [fieldId |-> "items", name |-> "Items", kind |-> "repeater",
     customFieldCreatedAtList |-> list]

FieldLists(n) == [1..n -> Catalogue]

Definition(createdAt, fields) ==
    [createdAt |-> createdAt, fieldId |-> "group", name |-> "Group", fields |-> fields]

\* customFields lists of at most two definitions with `total` fields in all;
\* two definitions may carry the same createdAt
Pools(total) ==
    {<<>>}
    \cup {<<Definition(c, f)>> : c \in CreatedAts, f \in UNION {FieldLists(n) : n \in 0..total}}
    \cup UNION {UNION {{<<Definition(c1, f1), Definition(c2, f2)>> :
                            c1 \in CreatedAts, c2 \in CreatedAts,
                            f1 \in FieldLists(n1), f2 \in FieldLists(n2)}
                       : n2 \in 0..(total - n1)}
                : n1 \in 0..total}

\* every schema over the catalogue with at most MaxFields fields in all
CatalogueSchemas ==
    UNION {{[apiFields |-> f] : f \in FieldLists(n)}
           \cup {[apiFields |-> f, customFields |-> p] :
                     f \in FieldLists(n), p \in Pools(MaxFields - n)}
           : n \in 0..MaxFields}

\* one repeater over every list of identifiers, against every pool
RepeaterSchemas ==
    {[apiFields |-> <<RepeaterField(list)>>, customFields |-> p] :
         list \in RepeaterLists, p \in Pools(MaxFields - 1)}

\* one scalar field, alone or beside a catalogue field
LeafSchemas ==
    {[apiFields |-> <<f>>] : f \in LeafFields}
    \cup {[apiFields |-> <<f, g>>] : f \in LeafFields, g \in Catalogue}

Schemas == CatalogueSchemas \cup RepeaterSchemas \cup LeafSchemas

OptionSet ==
    {EmptyRecord,
     [title |-> "MyAPI"],
     [title |-> ""],
     [includeExtensions |-> TRUE],
     [title |-> "MyAPI", includeExtensions |-> FALSE]}

Endpoints == {"posts", "tags", ""}

BundleApis ==
    {[apiFields |-> <<>>],
     [apiFields |-> <<TitleField>>],
     [apiFields |-> <<ChildField>>],
     [apiFields |-> <<ChildField>>,
      customFields |-> <<Definition("cf-a", <<TitleField>>)>>]}

ApiEntries == {[endpoint |-> e, api |-> a] : e \in Endpoints, a \in BundleApis}

Bundles ==
    {[version |-> "0.x", pulledAt |-> "2025-01-01T00:00:00.000Z",
      serviceDomain |-> "test", apis |-> apis] :
         apis \in UNION {[1..n -> ApiEntries] : n \in 0..MaxApis}}

----------------------------------------------------------------------------
(* Calls of the exported functions, each taken as one step *)

SchemaCalls(schemas, optionSet) ==
    {[fn |-> "toJsonSchema", schema |-> schema, options |-> opts] :
         schema \in schemas, opts \in optionSet}

BundleCalls == {[fn |-> "bundleToJsonSchema", bundle |-> bundle] : bundle \in Bundles}

\* a call has been made and nothing of it has run
Called(calls) ==
    /\ call \in calls
    /\ result = None
    /\ pc = "called"
    /\ stack = <<>>
    /\ heap = <<>>
    /\ ret = None

Init == Called(SchemaCalls(Schemas, OptionSet) \cup BundleCalls)

ToJsonSchema ==
    /\ pc = "called" /\ call.fn = "toJsonSchema"
    /\ result' = Some(toJsonSchema(call.schema, call.options))
    /\ pc' = "returned"
    /\ UNCHANGED <<call, stack, heap, ret>>

BundleToJsonSchema ==
    /\ pc = "called" /\ call.fn = "bundleToJsonSchema"
    /\ result' = Some(bundleToJsonSchema(call.bundle))
    /\ pc' = "returned"
    /\ UNCHANGED <<call, stack, heap, ret>>

Next == ToJsonSchema \/ BundleToJsonSchema

Spec == Init /\ [][Next]_vars

----------------------------------------------------------------------------
(* toJsonSchema executed step by step: one frame per active call of        *)
(* toJsonSchema, convertField (with the convertFieldByKind dispatch it     *)
(* makes), convertRepeater, convertCustom and resolveCustomField.          *)

\* more frames than any execution over the inputs explored needs
MaxStack == 12

StepOptions == {EmptyRecord, [title |-> "MyAPI", includeExtensions |-> TRUE]}

Top == stack[Len(stack)]
Pop == SubSeq(stack, 1, Len(stack) - 1)
Push(frame) == Append(stack, frame)
ReplaceTop(frame) == [stack EXCEPT ![Len(stack)] = frame]
Executing(fn) == pc = "running" /\ Len(stack) > 0 /\ Top.fn = fn
CanCall == Len(stack) < MaxStack

Return(schema) == Some(Some(schema))
ReturnNull == Some(None)
Returned == Unwrap(Unwrap(ret))

customFieldMapOfCall == buildCustomFieldMap(Get(call.schema, "customFields"))

FieldFrame(field, visitedRef) ==
    [fn |-> "convertField", field |-> field, visited |-> visitedRef, dispatched |-> FALSE]

ResolveFrame(createdAt, visitedRef) ==
    [fn |-> "resolveCustomField", createdAt |-> createdAt, visited |-> visitedRef,
     entered |-> FALSE]

StepInit == Called(SchemaCalls(CatalogueSchemas, StepOptions))

\* toJsonSchema is entered: the map is built, the accumulators are empty
Start ==
    /\ pc = "called" /\ call.fn = "toJsonSchema"
    /\ pc' = "running"
    /\ stack' = <<[fn |-> "toJsonSchema", i |-> 1, acc |-> emptyAccumulators]>>
    /\ UNCHANGED <<call, result, heap, ret>>

\* toJsonSchema: convertField(field, customFieldMap, new Set(), options)
TopCallsConvertField ==
    /\ Executing("toJsonSchema") /\ ret = None /\ CanCall
    /\ Top.i <= Len(call.schema.apiFields)
    /\ heap' = Append(heap, initialVisited)
    /\ stack' = Push(FieldFrame(call.schema.apiFields[Top.i], Len(heap) + 1))
    /\ UNCHANGED <<call, result, pc, ret>>

\* toJsonSchema: properties[field.fieldId] = ...; required.push(...)
TopStoresProperty ==
    /\ Executing("toJsonSchema") /\ IsSome(ret)
    /\ stack' = ReplaceTop([Top EXCEPT
                   !.acc = pushField(Top.acc, call.schema.apiFields[Top.i], Returned),
                   !.i = Top.i + 1])
    /\ ret' = None
    /\ UNCHANGED <<call, result, pc, heap>>

\* toJsonSchema: the loop is over, the envelope is returned
TopReturns ==
    /\ Executing("toJsonSchema") /\ ret = None
    /\ Top.i > Len(call.schema.apiFields)
    /\ result' = Some(envelope(Top.acc, call.options))
    /\ stack' = <<>>
    /\ pc' = "returned"
    /\ UNCHANGED <<call, heap, ret>>

\* convertField -> convertFieldByKind: a scalar kind returns its schema at once
FieldConvertsScalar ==
    /\ Executing("convertField") /\ ~Top.dispatched
    /\ Top.field.kind \notin {"repeater", "custom"}
    /\ ret' = Return(convertFieldByKind(Top.field, customFieldMapOfCall,
                                        heap[Top.visited], call.options))
    /\ stack' = ReplaceTop([Top EXCEPT !.dispatched = TRUE])
    /\ UNCHANGED <<call, result, pc, heap>>

\* convertFieldByKind: case "repeater" calls convertRepeater
FieldCallsConvertRepeater ==
    /\ Executing("convertField") /\ ~Top.dispatched /\ CanCall
    /\ Top.field.kind = "repeater"
    /\ stack' = Append(ReplaceTop([Top EXCEPT !.dispatched = TRUE]),
                       [fn |-> "convertRepeater",
                        createdAtList |-> Top.field.customFieldCreatedAtList,
                        visited |-> Top.visited, i |-> 1, schemas |-> <<>>])
    /\ UNCHANGED <<call, result, pc, heap, ret>>

\* convertFieldByKind: case "custom" calls convertCustom
FieldCallsConvertCustom ==
    /\ Executing("convertField") /\ ~Top.dispatched /\ CanCall
    /\ Top.field.kind = "custom"
    /\ stack' = Append(ReplaceTop([Top EXCEPT !.dispatched = TRUE]),
                       [fn |-> "convertCustom",
                        createdAt |-> Top.field.customFieldCreatedAt,
                        visited |-> Top.visited, called |-> FALSE])
    /\ UNCHANGED <<call, result, pc, heap, ret>>

\* convertField: the base schema came back; the extensions are merged in
FieldReturns ==
    /\ Executing("convertField") /\ Top.dispatched /\ IsSome(ret)
    /\ ret' = Return(withExtensions(Returned, Top.field, call.options))
    /\ stack' = Pop
    /\ UNCHANGED <<call, result, pc, heap>>

\* convertRepeater: resolveCustomField(createdAt, customFieldMap, visited, options)
RepeaterCallsResolve ==
    /\ Executing("convertRepeater") /\ ret = None /\ CanCall
    /\ Top.i <= Len(Top.createdAtList)
    /\ stack' = Push(ResolveFrame(Top.createdAtList[Top.i], Top.visited))
    /\ UNCHANGED <<call, result, pc, heap, ret>>

\* convertRepeater: if (resolved) schemas.push(resolved)
RepeaterCollects ==
    /\ Executing("convertRepeater") /\ IsSome(ret)
    /\ stack' = ReplaceTop([Top EXCEPT
                   !.schemas = IF IsSome(Unwrap(ret))
                               THEN Append(Top.schemas, Returned)
                               ELSE Top.schemas,
                   !.i = Top.i + 1])
    /\ ret' = None
    /\ UNCHANGED <<call, result, pc, heap>>

\* convertRepeater: the loop is over
RepeaterReturns ==
    /\ Executing("convertRepeater") /\ ret = None
    /\ Top.i > Len(Top.createdAtList)
    /\ ret' = Return(repeaterSchema(Top.schemas))
    /\ stack' = Pop
    /\ UNCHANGED <<call, result, pc, heap>>

\* convertCustom: resolveCustomField(createdAt, customFieldMap, visited, options)
CustomCallsResolve ==
    /\ Executing("convertCustom") /\ ~Top.called /\ CanCall
    /\ stack' = Append(ReplaceTop([Top EXCEPT !.called = TRUE]),
                       ResolveFrame(Top.createdAt, Top.visited))
    /\ UNCHANGED <<call, result, pc, heap, ret>>

\* convertCustom: return resolved ?? { type: "object" }
CustomReturns ==
    /\ Executing("convertCustom") /\ Top.called /\ IsSome(ret)
    /\ ret' = Return(IF IsSome(Unwrap(ret)) THEN Returned ELSE untypedObject)
    /\ stack' = Pop
    /\ UNCHANGED <<call, result, pc, heap>>

\* resolveCustomField: if (visited.has(createdAt)) return { type: "object" }
ResolveFindsCycle ==
    /\ Executing("resolveCustomField") /\ ~Top.entered
    /\ onPath(Top.createdAt, heap[Top.visited])
    /\ ret' = Some(circularResult)
    /\ stack' = Pop
    /\ UNCHANGED <<call, result, pc, heap>>

\* resolveCustomField: if (!def) return null
ResolveFindsNothing ==
    /\ Executing("resolveCustomField") /\ ~Top.entered
    /\ ~onPath(Top.createdAt, heap[Top.visited])
    /\ ~Has(customFieldMapOfCall, Top.createdAt)
    /\ ret' = ReturnNull
    /\ stack' = Pop
    /\ UNCHANGED <<call, result, pc, heap>>

\* resolveCustomField: nextVisited = new Set(visited); nextVisited.add(createdAt)
ResolveExpands ==
    /\ Executing("resolveCustomField") /\ ~Top.entered
    /\ ~onPath(Top.createdAt, heap[Top.visited])
    /\ Has(customFieldMapOfCall, Top.createdAt)
    /\ heap' = copyAndAdd(heap, Top.visited, Top.createdAt)
    /\ stack' = ReplaceTop(
           [fn |-> "resolveCustomField", createdAt |-> Top.createdAt,
            visited |-> Top.visited, entered |-> TRUE,
            nextVisited |-> Len(heap) + 1,
            fields |-> customFieldMapOfCall[Top.createdAt].fields,
            i |-> 1, acc |-> emptyAccumulators])
    /\ UNCHANGED <<call, result, pc, ret>>

\* resolveCustomField: convertField(field, customFieldMap, nextVisited, options)
ResolveCallsConvertField ==
    /\ Executing("resolveCustomField") /\ Top.entered /\ ret = None /\ CanCall
    /\ Top.i <= Len(Top.fields)
    /\ stack' = Push(FieldFrame(Top.fields[Top.i], Top.nextVisited))
    /\ UNCHANGED <<call, result, pc, heap, ret>>

\* resolveCustomField: properties[field.fieldId] = ...; required.push(...)
ResolveStoresProperty ==
    /\ Executing("resolveCustomField") /\ Top.entered /\ IsSome(ret)
    /\ stack' = ReplaceTop([Top EXCEPT
                   !.acc = pushField(Top.acc, Top.fields[Top.i], Returned),
                   !.i = Top.i + 1])
    /\ ret' = None
    /\ UNCHANGED <<call, result, pc, heap>>

\* resolveCustomField: the loop is over, the object schema is returned
ResolveReturns ==
    /\ Executing("resolveCustomField") /\ Top.entered /\ ret = None
    /\ Top.i > Len(Top.fields)
    /\ ret' = Return(objectSchema(Top.acc))
    /\ stack' = Pop
    /\ UNCHANGED <<call, result, pc, heap>>

Step ==
    \/ TopCallsConvertField \/ TopStoresProperty \/ TopReturns
    \/ FieldConvertsScalar \/ FieldCallsConvertRepeater \/ FieldCallsConvertCustom
    \/ FieldReturns
    \/ RepeaterCallsResolve \/ RepeaterCollects \/ RepeaterReturns
    \/ CustomCallsResolve \/ CustomReturns
    \/ ResolveFindsCycle \/ ResolveFindsNothing \/ ResolveExpands
    \/ ResolveCallsConvertField \/ ResolveStoresProperty \/ ResolveReturns

Run == Start \/ Step

StepSpec == StepInit /\ [][Run]_vars

\* the JavaScript engine runs a called function to completion
FairStepSpec == StepSpec /\ WF_vars(Run)

\* the step-by-step execution computes what the function computes
StepsAgree ==
    (pc = "returned") => result = Some(toJsonSchema(call.schema, call.options))

----------------------------------------------------------------------------
(* What a field refers to, and cyclic pools *)

References(field) ==
    IF field.kind = "custom" THEN {field.customFieldCreatedAt}
    ELSE IF field.kind = "repeater"
         THEN {field.customFieldCreatedAtList[i] : i \in 1..Len(field.customFieldCreatedAtList)}
         ELSE {}

ListReferences(fields) == UNION {References(fields[i]) : i \in 1..Len(fields)}

\* the definition `from` of the pool has a field that refers to `to`
DefinitionRefers(map, from, to) ==
    Has(map, from) /\ to \in ListReferences(map[from].fields)

IsStepCall == call.fn = "toJsonSchema"

----------------------------------------------------------------------------
(* C1 *)

\* C1: every call of toJsonSchema, whatever the pool (self-referencing and
\* mutually referencing definitions included, through custom or repeater
\* fields), runs to its return, and what it returns is a schema: the
\* execution never stops inside the call.
C1_Terminates ==
    (pc = "called") ~> (/\ pc = "returned"
                         /\ stack = <<>>
                         /\ IsSome(result)
                         /\ Unwrap(result).type = "object")

\* a call over a pool whose two definitions refer to each other, and one of
\* them to itself, has returned after entering both
C1_Witness ==
    /\ pc = "returned" /\ IsStepCall /\ IsSome(result)
    /\ LET map == customFieldMapOfCall
       IN /\ DefinitionRefers(map, "cf-a", "cf-b")
          /\ DefinitionRefers(map, "cf-b", "cf-a")
          /\ \E c \in CreatedAts : DefinitionRefers(map, c, c)
          /\ "cf-a" \in ListReferences(call.schema.apiFields)
          /\ \E i \in 1..Len(heap) : heap[i] = {"cf-a", "cf-b"}

----------------------------------------------------------------------------
(* C2 *)

ExtensionsOn(opts) == Has(opts, "includeExtensions") /\ opts.includeExtensions = TRUE

WithoutExtensions(node) == [k \in (DOMAIN node) \ ExtensionKeys |-> node[k]]

\* the property node is the untyped object schema: type "object" and no other
\* key, the x-microcms-* keys of an extended property aside
IsUntypedObjectProperty(node, opts) ==
    /\ WithoutExtensions(node) = [type |-> "object"]
    /\ ~ExtensionsOn(opts) => node = [type |-> "object"]

\* fields[i] is the field whose conversion the properties map keeps under its fieldId
KeepsItsKey(fields, i) ==
    \A j \in (i + 1)..Len(fields) : fields[j].fieldId # fields[i].fieldId

ResolveAskedOnPath ==
    /\ Executing("resolveCustomField") /\ ~Top.entered
    /\ Top.createdAt \in heap[Top.visited]

CustomFieldOnPathReturning ==
    /\ Executing("convertField") /\ Top.dispatched /\ IsSome(ret)
    /\ Top.field.kind = "custom"
    /\ Top.field.customFieldCreatedAt \in heap[Top.visited]

\* in the schema returned, the property of a top-level custom field that
\* resolves to D holds, for D's own custom field that references D, the
\* untyped object
SelfReferenceIsUntyped ==
    (pc = "returned" /\ IsStepCall) =>
        LET map == customFieldMapOfCall
            fields == call.schema.apiFields
            out == Unwrap(result)
        IN \A i \in 1..Len(fields) :
              (/\ fields[i].kind = "custom"
               /\ Has(map, fields[i].customFieldCreatedAt)
               /\ KeepsItsKey(fields, i)) =>
                  LET d == fields[i].customFieldCreatedAt
                      inner == map[d].fields
                      node == ObjGet(out.properties, fields[i].fieldId)
                  IN \A j \in 1..Len(inner) :
                        (/\ inner[j].kind = "custom"
                         /\ inner[j].customFieldCreatedAt = d
                         /\ KeepsItsKey(inner, j)) =>
                            IsUntypedObjectProperty(
                                ObjGet(node.properties, inner[j].fieldId), call.options)

\* C2: a call of resolveCustomField for an identifier that is on the current
\* resolution path returns exactly {type: "object"} in its next step, with no
\* frame pushed and no Set allocated (it does not enter the definition); the
\* custom field that made the call converts to the untyped object (plus the
\* x-microcms-* keys when extensions are on), and so the property of a
\* definition's custom field that references the definition itself is the
\* untyped object in the schema returned.
C2_CycleIsUntypedObject ==
    /\ [][ResolveAskedOnPath =>
             /\ ret' = Some(Some([type |-> "object"]))
             /\ stack' = Pop
             /\ heap' = heap
             /\ pc' = "running"]_vars
    /\ [][CustomFieldOnPathReturning =>
             IsUntypedObjectProperty(Unwrap(Unwrap(ret')), call.options)]_vars
    /\ []SelfReferenceIsUntyped

\* the call of the repository's circular-reference test has returned: node
\* resolves to cf-a, whose field child references cf-a, and child is {type: "object"}
C2_Witness ==
    /\ pc = "returned" /\ IsStepCall
    /\ call.schema.apiFields = <<ChildField>>
    /\ Get(call.schema, "customFields") = Some(<<Definition("cf-a", <<ChildField>>)>>)
    /\ ~ExtensionsOn(call.options)
    /\ ObjGet(ObjGet(Unwrap(result).properties, "child").properties, "child")
           = [type |-> "object"]
    /\ \E i \in 1..Len(heap) : heap[i] = {"cf-a"}

----------------------------------------------------------------------------
(* C3 *)

IsSchemaCall == pc = "returned" /\ call.fn = "toJsonSchema"

\* the resolution paths a pool allows: sets of identifiers of its definitions
Paths(map) == SUBSET (DOMAIN map)

FieldIds(fields) == {fields[i].fieldId : i \in 1..Len(fields)}

FirstIndex(fields, id) ==
    CHOOSE i \in 1..Len(fields) :
        fields[i].fieldId = id /\ \A j \in 1..(i - 1) : fields[j].fieldId # id

LastIndex(fields, id) ==
    CHOOSE i \in 1..Len(fields) : fields[i].fieldId = id /\ KeepsItsKey(fields, i)

\* key k1 comes before key k2 among the own keys of a JavaScript object
\* filled in the order of `fields`
OwnKeyBefore(fields, k1, k2) ==
    IF IsArrayIndex(k1)
    THEN IsArrayIndex(k2) => ArrayIndex[k1] < ArrayIndex[k2]
    ELSE ~IsArrayIndex(k2) /\ FirstIndex(fields, k1) < FirstIndex(fields, k2)

\* one entry per field, in field-list order, each the conversion of its field
IsPropertiesInListOrder(props, fields, map, path, opts) ==
    /\ Len(props) = Len(fields)
    /\ \A i \in 1..Len(fields) :
          props[i] = <<fields[i].fieldId, convertField(fields[i], map, path, opts)>>

\* one entry per distinct fieldId, each the conversion of the last field
\* with that fieldId, in own-key order
IsPropertiesOf(props, fields, map, path, opts) ==
    /\ Len(props) = Cardinality(FieldIds(fields))
    /\ {props[i][1] : i \in 1..Len(props)} = FieldIds(fields)
    /\ \A i \in 1..Len(props) :
          props[i][2] = convertField(fields[LastIndex(fields, props[i][1])], map, path, opts)
    /\ \A i \in 1..Len(props) : \A j \in (i + 1)..Len(props) :
          OwnKeyBefore(fields, props[i][1], props[j][1])

IsObjectSchemaShape(node) ==
    /\ {"type", "properties"} \subseteq DOMAIN node
    /\ DOMAIN node \subseteq {"type", "properties", "required"}
    /\ node.type = "object"

\* P(properties of the conversion, fields of the definition, map, extended
\* path, options) for every resolvable custom reference off the path, as
\* convertCustom and resolveCustomField return it and as the schema returned
\* holds it for the top-level custom fields
CustomExpansion(P(_, _, _, _, _)) ==
    IsSchemaCall =>
        LET map == customFieldMapOfCall
            opts == call.options
            fields == call.schema.apiFields
            out == Unwrap(result)
        IN /\ \A c \in DOMAIN map : \A path \in Paths(map) :
                 c \notin path =>
                    LET node == convertCustom(c, map, path, opts)
                    IN /\ IsObjectSchemaShape(node)
                       /\ resolveCustomField(c, map, path, opts) = Some(node)
                       /\ P(node.properties, map[c].fields, map, path \cup {c}, opts)
           /\ \A i \in 1..Len(fields) :
                 (/\ fields[i].kind = "custom"
                  /\ Has(map, fields[i].customFieldCreatedAt)
                  /\ KeepsItsKey(fields, i)) =>
                     LET c == fields[i].customFieldCreatedAt
                         node == WithoutExtensions(ObjGet(out.properties, fields[i].fieldId))
                     IN /\ IsObjectSchemaShape(node)
                        /\ P(node.properties, map[c].fields, map, {c}, opts)

----------------------------------------------------------------------------
(* C4 *)

CustomFields == {f \in Catalogue : f.kind = "custom"}

\* C4: a custom field whose customFieldCreatedAt is not in the pool (the
\* pool of a schema without customFields is empty) converts to exactly
\* {type: "object"}: resolveCustomField returns null, convertCustom returns
\* the untyped object, and the property of such a field is the untyped
\* object (plus the x-microcms-* keys when extensions are on).
C4_UnresolvedCustomIsUntypedObject ==
    IsSchemaCall =>
        LET map == customFieldMapOfCall
            opts == call.options
            fields == call.schema.apiFields
            out == Unwrap(result)
        IN /\ \A c \in CreatedAts \ DOMAIN map : \A path \in Paths(map) :
                 /\ resolveCustomField(c, map, path, opts) = None
                 /\ convertCustom(c, map, path, opts) = [type |-> "object"]
           /\ \A f \in CustomFields : \A path \in Paths(map) :
                 ~Has(map, f.customFieldCreatedAt) =>
                    /\ convertFieldByKind(f, map, path, opts) = [type |-> "object"]
                    /\ IsUntypedObjectProperty(convertField(f, map, path, opts), opts)
           /\ \A i \in 1..Len(fields) :
                 (/\ fields[i].kind = "custom"
                  /\ ~Has(map, fields[i].customFieldCreatedAt)
                  /\ KeepsItsKey(fields, i)) =>
                     IsUntypedObjectProperty(ObjGet(out.properties, fields[i].fieldId), opts)

\* the call of the repository's unresolved-custom test has returned: no
\* customFields at all, and the property is {type: "object"}
C4_Witness ==
    /\ IsSchemaCall
    /\ call.schema = [apiFields |-> <<ChildField>>]
    /\ call.options = EmptyRecord
    /\ Unwrap(result).properties = << <<"child", [type |-> "object"]>> >>

----------------------------------------------------------------------------
(* C5 *)

Resolves(c, map, path, opts) == IsSome(resolveCustomField(c, map, path, opts))

\* the positions of the list whose identifier resolves
ResolvingPositions(list, map, path, opts) ==
    {i \in 1..Len(list) : Resolves(list[i], map, path, opts)}

\* the distinct identifiers of the list that resolve
ResolvingIdentifiers(list, map, path, opts) ==
    {list[i] : i \in ResolvingPositions(list, map, path, opts)}

\* the k-th smallest element of a set of positions
Nth(positions, k) ==
    CHOOSE i \in positions : Cardinality({j \in positions : j <= i}) = k

FirstPositions(list, ids) ==
    {i \in 1..Len(list) : list[i] \in ids /\ \A j \in 1..(i - 1) : list[j] # list[i]}

\* node is the repeater schema over the resolutions at `positions`, in order
IsRepeaterOver(node, list, positions, map, path, opts) ==
    LET n == Cardinality(positions)
        S(k) == convertCustom(list[Nth(positions, k)], map, path, opts)
    IN IF n = 0 THEN node = [type |-> "array"]
       ELSE IF n = 1 THEN node = [type |-> "array", items |-> S(1)]
       ELSE /\ DOMAIN node = {"type", "items"}
            /\ node.type = "array"
            /\ DOMAIN node.items = {"oneOf"}
            /\ Len(node.items.oneOf) = n
            /\ \A k \in 1..n : node.items.oneOf[k] = S(k)

\* one alternative per distinct identifier that resolves
RepeaterPerIdentifier(node, list, map, path, opts) ==
    IsRepeaterOver(node, list,
                   FirstPositions(list, ResolvingIdentifiers(list, map, path, opts)),
                   map, path, opts)

\* one alternative per listed entry that resolves
RepeaterPerEntry(node, list, map, path, opts) ==
    IsRepeaterOver(node, list, ResolvingPositions(list, map, path, opts), map, path, opts)

\* P(conversion, list, map, path, options) for every repeater list on every
\* path, as convertRepeater returns it and as the schema returned holds it
\* for the top-level repeater fields
RepeaterConversion(P(_, _, _, _, _)) ==
    IsSchemaCall =>
        LET map == customFieldMapOfCall
            opts == call.options
            fields == call.schema.apiFields
            out == Unwrap(result)
        IN /\ \A list \in RepeaterLists : \A path \in Paths(map) :
                 P(convertRepeater(list, map, path, opts), list, map, path, opts)
           /\ \A i \in 1..Len(fields) :
                 (fields[i].kind = "repeater" /\ KeepsItsKey(fields, i)) =>
                    P(WithoutExtensions(ObjGet(out.properties, fields[i].fieldId)),
                      fields[i].customFieldCreatedAtList, map, {}, opts)

\* C5 as stated: identifiers that fail to resolve are dropped; no identifier
\* resolves: {type: "array"}; exactly one resolves: items is its
\* single-composite resolution; N >= 2 distinct identifiers resolve: items
\* is a oneOf of exactly N alternatives in listing order.
C5_AlternativePerIdentifier == RepeaterConversion(RepeaterPerIdentifier)

\* C5 (amended): the listed entries are resolved one by one and those that
\* fail to resolve are dropped; no entry resolves: {type: "array"} with no
\* items key; exactly one entry resolves: {type: "array", items: S} with S
\* the single-composite resolution of its identifier; N >= 2 entries
\* resolve: {type: "array", items: {oneOf: [...]}} with exactly N
\* alternatives in listing order, an identifier listed twice contributing
\* one alternative per occurrence.
C5_AlternativePerEntry == RepeaterConversion(RepeaterPerEntry)

\* a repeater that lists the same resolvable identifier twice was converted:
\* two equal alternatives
C5_Witness ==
    /\ IsSchemaCall
    /\ call.schema.apiFields = <<RepeaterField(<<"cf-a", "cf-a">>)>>
    /\ Get(call.schema, "customFields") = Some(<<Definition("cf-a", <<TitleField>>)>>)
    /\ call.options = EmptyRecord
    /\ LET node == ObjGet(Unwrap(result).properties, "items")
       IN /\ Len(node.items.oneOf) = 2
          /\ node.items.oneOf[1] = node.items.oneOf[2]

----------------------------------------------------------------------------
(* C6 *)

RequiredPositions(fields) == {i \in 1..Len(fields) : TruthyFlag(fields[i], "required")}

\* node.required lists the fieldIds of the required fields in field order,
\* and is absent when there is none
RequiredMatches(node, fields) ==
    LET req == RequiredPositions(fields)
    IN IF req = {} THEN ~Has(node, "required")
       ELSE /\ Has(node, "required")
            /\ Len(node.required) = Cardinality(req)
            /\ \A k \in 1..Cardinality(req) :
                  node.required[k] = fields[Nth(req, k)].fieldId

\* C6: the required list of the envelope and of every resolved reusable
\* definition is the fieldIds of the fields that set required (to true), in
\* the fields' order, and the required key is absent when no field does.
C6_RequiredInFieldOrder ==
    IsSchemaCall =>
        LET map == customFieldMapOfCall
            opts == call.options
            fields == call.schema.apiFields
            out == Unwrap(result)
        IN /\ RequiredMatches(out, fields)
           /\ \A c \in DOMAIN map : \A path \in Paths(map) :
                 c \notin path =>
                    /\ RequiredMatches(Unwrap(resolveCustomField(c, map, path, opts)),
                                       map[c].fields)
                    /\ RequiredMatches(convertCustom(c, map, path, opts), map[c].fields)
           /\ \A i \in 1..Len(fields) :
                 (/\ fields[i].kind = "custom"
                  /\ Has(map, fields[i].customFieldCreatedAt)
                  /\ KeepsItsKey(fields, i)) =>
                     RequiredMatches(ObjGet(out.properties, fields[i].fieldId),
                                     map[fields[i].customFieldCreatedAt].fields)

\* a call has returned whose envelope lists two of three fields as required,
\* in field order (the properties are in another order), over a definition
\* without required fields, whose schema has no required key
C6_Witness ==
    /\ IsSchemaCall
    /\ call.schema.apiFields = <<TitleField, ChildField, OtherField>>
    /\ Get(call.schema, "customFields") = Some(<<Definition("cf-a", <<>>)>>)
    /\ call.options = EmptyRecord
    /\ Unwrap(result).required = <<"title", "1">>
    /\ ObjKeys(Unwrap(result).properties) = <<"1", "title", "child">>
    /\ ~Has(ObjGet(Unwrap(result).properties, "child"), "required")

----------------------------------------------------------------------------
(* C7, C8 *)

RECURSIVE NodesBelow(_)
RECURSIVE NodesBelowEach(_, _)
RECURSIVE PropertyNodesIn(_)
RECURSIVE PropertyNodesInEach(_, _)
RECURSIVE ExtendedAsField(_, _, _, _)
RECURSIVE StripExtensions(_)

\* the schemas directly inside a node: its property values, its items, its
\* oneOf alternatives
Children(node) ==
    (IF Has(node, "properties")
     THEN [i \in 1..Len(node.properties) |-> node.properties[i][2]] ELSE <<>>)
    \o (IF Has(node, "items") THEN <<node.items>> ELSE <<>>)
    \o (IF Has(node, "oneOf") THEN node.oneOf ELSE <<>>)

PropertyValues(node) ==
    IF Has(node, "properties")
    THEN [i \in 1..Len(node.properties) |-> node.properties[i][2]] ELSE <<>>

\* every node strictly inside `node`, at every depth
NodesBelowEach(nodes, n) ==
    IF n = 0 THEN <<>>
    ELSE NodesBelowEach(nodes, n - 1) \o <<nodes[n]>> \o NodesBelow(nodes[n])

NodesBelow(node) == NodesBelowEach(Children(node), Len(Children(node)))

\* every value of a properties map inside `node`, at every depth
PropertyNodesInEach(nodes, n) ==
    IF n = 0 THEN <<>>
    ELSE PropertyNodesInEach(nodes, n - 1) \o PropertyNodesIn(nodes[n])

PropertyNodesIn(node) ==
    PropertyValues(node) \o PropertyNodesInEach(Children(node), Len(Children(node)))

CarriesNoExtension(node) == DOMAIN node \cap ExtensionKeys = {}

CarriesExtensionsOf(node, field) ==
    /\ ExtensionKeys \subseteq DOMAIN node
    /\ node["x-microcms-field-id"] = field.fieldId
    /\ node["x-microcms-field-name"] = field.name
    /\ node["x-microcms-kind"] = field.kind

\* the properties of an object schema assembled from `fields` are extended
\* as the fields they come from
ExtendedAsFields(node, fields, map, path) ==
    \A i \in 1..Len(node.properties) :
        ExtendedAsField(node.properties[i][2],
                        fields[LastIndex(fields, node.properties[i][1])], map, path)

\* the alternatives of a repeater schema, in order
Alternatives(node) ==
    IF ~Has(node, "items") THEN <<>>
    ELSE IF Has(node.items, "oneOf") THEN node.items.oneOf
    ELSE <<node.items>>

\* the property converted from `field` carries the field's three keys; below
\* it, the properties of each reusable definition it expands are extended as
\* that definition's fields, and no other node carries a key
ExtendedAsField(node, field, map, path) ==
    /\ CarriesExtensionsOf(node, field)
    /\ IF field.kind = "custom"
          /\ Has(map, field.customFieldCreatedAt)
          /\ field.customFieldCreatedAt \notin path
       THEN ExtendedAsFields(node, map[field.customFieldCreatedAt].fields, map,
                             path \cup {field.customFieldCreatedAt})
       ELSE IF field.kind = "repeater"
       THEN LET list == field.customFieldCreatedAtList
                positions == {i \in 1..Len(list) : list[i] \in path \/ Has(map, list[i])}
                alts == Alternatives(node)
            IN /\ Len(alts) = Cardinality(positions)
               /\ Has(node, "items") => CarriesNoExtension(node.items)
               /\ \A k \in 1..Len(alts) :
                     LET c == list[Nth(positions, k)]
                     IN /\ CarriesNoExtension(alts[k])
                        /\ IF c \in path THEN ~Has(alts[k], "properties")
                           ELSE ExtendedAsFields(alts[k], map[c].fields, map, path \cup {c})
       ELSE \A i \in 1..Len(NodesBelow(node)) : CarriesNoExtension(NodesBelow(node)[i])

NoExtensionAnywhere(out) ==
    /\ CarriesNoExtension(out)
    /\ \A i \in 1..Len(NodesBelow(out)) : CarriesNoExtension(NodesBelow(out)[i])

\* C7 as stated: with includeExtensions enabled every value of a properties
\* map of the output, at every nesting depth, carries the three x-microcms-*
\* keys; with the option absent or false no node carries any of them.
C7_EveryPropertyNodeExtended ==
    IsSchemaCall =>
        LET out == Unwrap(result)
        IN IF ExtensionsOn(call.options)
           THEN \A i \in 1..Len(PropertyNodesIn(out)) :
                   ExtensionKeys \subseteq DOMAIN PropertyNodesIn(out)[i]
           ELSE NoExtensionAnywhere(out)

\* C7 (amended): with includeExtensions enabled every property converted
\* from a field (every value of the envelope's properties map and of the
\* properties map of every expanded reusable definition, at every nesting
\* depth) carries the three x-microcms-* keys, equal to the fieldId, name
\* and kind of the field it was converted from; the envelope, the items and
\* oneOf alternatives of a repeater, and the fixed sub-properties of the
\* media, relation and relationList schemas (url, height, width, id) carry
\* none; with the option absent or false no node carries any of them.
C7_EveryFieldPropertyExtended ==
    IsSchemaCall =>
        LET out == Unwrap(result)
        IN IF ExtensionsOn(call.options)
           THEN /\ CarriesNoExtension(out)
                /\ ExtendedAsFields(out, call.schema.apiFields, customFieldMapOfCall, {})
           ELSE NoExtensionAnywhere(out)

\* a call with extensions on has returned whose custom field expands a
\* definition: the property and the property inside it carry their fields' keys
C7_Witness ==
    /\ IsSchemaCall
    /\ ExtensionsOn(call.options)
    /\ call.schema.apiFields = <<ChildField>>
    /\ Get(call.schema, "customFields") = Some(<<Definition("cf-a", <<TitleField>>)>>)
    /\ LET node == ObjGet(Unwrap(result).properties, "child")
       IN /\ node["x-microcms-kind"] = "custom"
          /\ ObjGet(node.properties, "title")["x-microcms-field-name"] = "Title"

\* the node with the x-microcms-* keys removed from it and from every node
\* inside it
StripExtensions(node) ==
    LET bare == WithoutExtensions(node)
    IN [k \in DOMAIN bare |->
           IF k = "properties"
           THEN [i \in 1..Len(bare.properties) |->
                    <<bare.properties[i][1], StripExtensions(bare.properties[i][2])>>]
           ELSE IF k = "items" THEN StripExtensions(bare.items)
           ELSE IF k = "oneOf"
           THEN [i \in 1..Len(bare.oneOf) |-> StripExtensions(bare.oneOf[i])]
           ELSE bare[k]]

WithExtensionsOn(opts) == [includeExtensions |-> TRUE] @@ opts
WithExtensionsOff(opts) == [k \in (DOMAIN opts) \ {"includeExtensions"} |-> opts[k]]

\* C8: removing the x-microcms-* keys from every node of the conversion with
\* includeExtensions enabled gives exactly the conversion without the
\* option; the schema returned by the call is one of the two conversions.
C8_ExtensionsOnlyAugment ==
    IsSchemaCall =>
        LET schema == call.schema
            out == Unwrap(result)
            extended == toJsonSchema(schema, WithExtensionsOn(call.options))
            plain == toJsonSchema(schema, WithExtensionsOff(call.options))
        IN /\ StripExtensions(extended) = plain
           /\ out = IF ExtensionsOn(call.options) THEN extended ELSE plain
           /\ StripExtensions(out) = plain

\* a call with extensions on has returned whose schema holds a repeater of
\* two expanded definitions; it differs from the plain conversion
C8_Witness ==
    /\ IsSchemaCall
    /\ ExtensionsOn(call.options)
    /\ call.schema.apiFields = <<BlocksField>>
    /\ LET node == ObjGet(Unwrap(result).properties, "title")
       IN /\ Has(node, "items") /\ Has(node.items, "oneOf")
          /\ \E i \in 1..Len(PropertyNodesIn(node)) :
                Has(PropertyNodesIn(node)[i], "x-microcms-field-id")
    /\ Unwrap(result) # toJsonSchema(call.schema, WithExtensionsOff(call.options))

----------------------------------------------------------------------------
(* C9, C10 *)

\* C9: toJsonSchema returns an envelope with $schema the draft-07 URI, type
\* "object" and a properties map with one entry per top-level field
\* identifier, each converted with the empty resolution path; title is
\* present and equal to options.title whenever a title is supplied, absent
\* when none is supplied.
C9_EnvelopeWithSuppliedTitle ==
    IsSchemaCall =>
        LET out == Unwrap(result)
            opts == call.options
            fields == call.schema.apiFields
        IN /\ out["$schema"] = "http://json-schema.org/draft-07/schema#"
           /\ out.type = "object"
           /\ DOMAIN out \subseteq {"$schema", "type", "properties", "title", "required"}
           /\ Len(out.properties) = Cardinality(FieldIds(fields))
           /\ \A id \in FieldIds(fields) :
                 /\ ObjHas(out.properties, id)
                 /\ ObjGet(out.properties, id)
                        = convertField(fields[LastIndex(fields, id)],
                                       customFieldMapOfCall, {}, opts)
           /\ IF Has(opts, "title")
              THEN Has(out, "title") /\ out.title = opts.title
              ELSE ~Has(out, "title")

IsBundleCall == pc = "returned" /\ call.fn = "bundleToJsonSchema"

\* C10: bundleToJsonSchema returns a mapping whose keys are exactly the
\* endpoint names of bundle.apis; the value of each entry is the conversion
\* of that entry's API schema with the endpoint name as title, and its title
\* equals the endpoint name, whatever the other entries are.
C10_SchemaPerEndpoint ==
    IsBundleCall =>
        LET apis == call.bundle.apis
            out == Unwrap(result)
        IN /\ {out[i][1] : i \in 1..Len(out)} = {apis[i].endpoint : i \in 1..Len(apis)}
           /\ \A i \in 1..Len(out) : \A j \in 1..Len(out) : out[i][1] = out[j][1] => i = j
           /\ \A i \in 1..Len(apis) :
                 LET value == ObjGet(out, apis[i].endpoint)
                 IN /\ value = toJsonSchema(apis[i].api, [title |-> apis[i].endpoint])
                    /\ Has(value, "title")
                    /\ value.title = apis[i].endpoint

----------------------------------------------------------------------------
(* C11 *)

\* every Set object that exists keeps its members
SetsKeepTheirMembers ==
    /\ Len(heap') >= Len(heap)
    /\ \A i \in 1..Len(heap) : heap'[i] = heap[i]

\* every active call sees the path it was passed as it was passed: the Set
\* made by toJsonSchema for a top-level field is empty, and the Set a
\* resolveCustomField made for its fields is the one it was passed plus its
\* own identifier
PathsAsPassed ==
    \A k \in 1..Len(stack) :
        /\ (k = 2 /\ stack[k].fn = "convertField") => heap[stack[k].visited] = {}
        /\ (stack[k].fn = "resolveCustomField" /\ stack[k].entered) =>
              heap[stack[k].nextVisited]
                  = heap[stack[k].visited] \cup {stack[k].createdAt}

\* C11: no step of a conversion changes its inputs: the arguments of the
\* call (the field definitions, the reusable definitions, the customFields
\* list, the options) are the same after every step, and so is every Set
\* that holds a resolution path, so that the path a caller passed to a
\* recursive call is, when the call returns, the path it passed.
C11_InputsNotMutated ==
    /\ [][call' = call /\ SetsKeepTheirMembers]_vars
    /\ []PathsAsPassed

\* a call over a pool whose definitions refer to each other has returned
\* after making the copies {}, {cf-a} and {cf-a, cf-b} of the path
C11_Witness ==
    /\ pc = "returned" /\ IsStepCall
    /\ DefinitionRefers(customFieldMapOfCall, "cf-a", "cf-b")
    /\ DefinitionRefers(customFieldMapOfCall, "cf-b", "cf-a")
    /\ \E i, j, k \in 1..Len(heap) :
          /\ i < j /\ j < k
          /\ heap[i] = {} /\ heap[j] = {"cf-a"} /\ heap[k] = {"cf-a", "cf-b"}

----------------------------------------------------------------------------
(* C12 *)

\* the node is a number schema whose bounds are those the field specifies
IsNumberSchemaOf(node, field) ==
    /\ DOMAIN node = {"type"}
                     \cup (IF Has(field, "numberMin") THEN {"minimum"} ELSE {})
                     \cup (IF Has(field, "numberMax") THEN {"maximum"} ELSE {})
    /\ node.type = "number"
    /\ Has(field, "numberMin") => node.minimum = field.numberMin
    /\ Has(field, "numberMax") => node.maximum = field.numberMax
    /\ (~Has(field, "numberMin") /\ ~Has(field, "numberMax")) => node = [type |-> "number"]

NumberFields == {f \in LeafFields : f.kind = "number"}

\* C12: a number field converts to a number schema in which minimum is
\* present exactly when the field specifies numberMin, with that value (a
\* specified 0 included), and maximum exactly when it specifies numberMax; a
\* field with no bounds converts to exactly {type: "number"}.  Checked of the
\* conversion of every number field and of the property the schema returned
\* holds for a top-level number field.
C12_BoundsOnlyWhenSpecified ==
    IsSchemaCall =>
        LET fields == call.schema.apiFields
            out == Unwrap(result)
        IN /\ \A f \in NumberFields :
                 IsNumberSchemaOf(convertFieldByKind(f, customFieldMapOfCall, {}, call.options), f)
           /\ \A i \in 1..Len(fields) :
                 (fields[i].kind = "number" /\ KeepsItsKey(fields, i)) =>
                    IsNumberSchemaOf(
                        WithoutExtensions(ObjGet(out.properties, fields[i].fieldId)),
                        fields[i])

\* a number field that specifies only numberMin 0 was converted: minimum 0,
\* no maximum
C12_Witness ==
    /\ IsSchemaCall
    /\ \E i \in 1..Len(call.schema.apiFields) :
          LET f == call.schema.apiFields[i]
          IN /\ f.kind = "number"
             /\ Has(f, "numberMin") /\ f.numberMin = 0 /\ ~Has(f, "numberMax")
             /\ ObjGet(Unwrap(result).properties, f.fieldId) = [type |-> "number", minimum |-> 0]

----------------------------------------------------------------------------
(* C13 *)

\* the identifiers of the definitions being expanded around frame k: those of
\* the resolveCustomField calls below it on the stack that entered a definition
Enclosing(k) ==
    {stack[j].createdAt : j \in {i \in 1..(k - 1) :
        stack[i].fn = "resolveCustomField" /\ stack[i].entered}}

\* the path of every active call is the set of definitions being expanded
\* around it, whatever its siblings expanded before it
PathIsEnclosing ==
    \A k \in 1..Len(stack) :
        /\ stack[k].fn # "toJsonSchema" => heap[stack[k].visited] = Enclosing(k)
        /\ (stack[k].fn = "resolveCustomField" /\ stack[k].entered) =>
              heap[stack[k].nextVisited] = Enclosing(k) \cup {stack[k].createdAt}

\* in the properties converted from `fields` under `path`, every reference to
\* d by a custom field or by an entry of a repeater list is `expected`
SiblingsExpandTo(props, fields, map, path, d, expected) ==
    \A i \in 1..Len(fields) :
        KeepsItsKey(fields, i) =>
            LET node == WithoutExtensions(ObjGet(props, fields[i].fieldId))
            IN /\ (fields[i].kind = "custom" /\ fields[i].customFieldCreatedAt = d) =>
                      node = expected
               /\ fields[i].kind = "repeater" =>
                      LET list == fields[i].customFieldCreatedAtList
                          positions == {n \in 1..Len(list) :
                                           list[n] \in path \/ Has(map, list[n])}
                          alts == Alternatives(node)
                      IN /\ Len(alts) = Cardinality(positions)
                         /\ \A k \in 1..Len(alts) :
                               list[Nth(positions, k)] = d => alts[k] = expected

\* the sibling references to a definition d that is in the pool and not on
\* the path are all expanded, to the same object schema: among the top-level
\* fields (empty path) and among the fields of the definition a top-level
\* custom field expands (path: that definition)
SiblingsFullyExpanded ==
    (pc = "returned" /\ IsStepCall) =>
        LET map == customFieldMapOfCall
            opts == call.options
            fields == call.schema.apiFields
            out == Unwrap(result)
        IN \A d \in DOMAIN map :
              /\ Has(convertCustom(d, map, {}, opts), "properties")
              /\ SiblingsExpandTo(out.properties, fields, map, {}, d,
                                  convertCustom(d, map, {}, opts))
              /\ \A i \in 1..Len(fields) :
                    (/\ fields[i].kind = "custom"
                     /\ KeepsItsKey(fields, i)
                     /\ Has(map, fields[i].customFieldCreatedAt)
                     /\ fields[i].customFieldCreatedAt # d) =>
                        LET e == fields[i].customFieldCreatedAt
                            node == ObjGet(out.properties, fields[i].fieldId)
                        IN /\ Has(convertCustom(d, map, {e}, opts), "properties")
                           /\ SiblingsExpandTo(node.properties, map[e].fields, map, {e}, d,
                                               convertCustom(d, map, {e}, opts))

\* C13: the resolution path of every active call is exactly the set of
\* definitions being expanded around it (the path is extended only beneath
\* the definition being expanded; sibling fields, the entries of one
\* repeater list and distinct top-level fields start from the same path), so
\* sibling references to one definition that is in the pool and not on the
\* path are each expanded to the same object schema, none reported as a cycle.
C13_SiblingsStartFromSamePath ==
    /\ []PathIsEnclosing
    /\ []SiblingsFullyExpanded

\* a definition whose sibling fields, a custom field and a repeater, both
\* reference cf-a was expanded: the property of the one and the matching
\* alternative of the other are the same expansion of cf-a, with properties
C13_Witness ==
    /\ pc = "returned" /\ IsStepCall
    /\ call.schema.apiFields = <<OtherField>>
    /\ Get(call.schema, "customFields")
           = Some(<<Definition("cf-b", <<ChildField, BlocksField>>), Definition("cf-a", <<>>)>>)
    /\ ~ExtensionsOn(call.options)
    /\ LET inner == ObjGet(Unwrap(result).properties, "1").properties
       IN /\ ObjGet(inner, "child") = [type |-> "object", properties |-> <<>>]
          /\ ObjGet(inner, "title").items.oneOf[2] = ObjGet(inner, "child")

----------------------------------------------------------------------------
(* C14 *)

\* the active resolveCustomField calls that entered a definition, outermost first
Expanding == {k \in 1..Len(stack) : stack[k].fn = "resolveCustomField" /\ stack[k].entered}

ExpansionDepth == Cardinality(Expanding)

PoolIdentifiers == DOMAIN customFieldMapOfCall

\* C14: at every point of a conversion every resolution path holds only
\* identifiers of the pool, so no more of them than the pool has; the
\* definitions being expanded, one inside the other, are all different (no
\* identifier is entered twice on one path), and their number, the nesting
\* depth of the expansion, never exceeds the number of identifiers of the pool.
C14_PathWithinPool ==
    /\ \A i \in 1..Len(heap) :
          /\ heap[i] \subseteq PoolIdentifiers
          /\ Cardinality(heap[i]) <= Cardinality(PoolIdentifiers)
    /\ \A k \in Expanding : \A j \in Expanding :
          stack[k].createdAt = stack[j].createdAt => k = j
    /\ \A k \in Expanding : stack[k].createdAt \in PoolIdentifiers
    /\ ExpansionDepth <= Cardinality(PoolIdentifiers)

\* both definitions of a pool of two are being expanded, one inside the
\* other, the path holds both, and a reference back to the outer one is
\* about to be resolved
C14_Witness ==
    /\ Cardinality(PoolIdentifiers) = 2
    /\ ExpansionDepth = 2
    /\ ResolveAskedOnPath
    /\ heap[Top.visited] = {"cf-a", "cf-b"}

----------------------------------------------------------------------------
(* C15 *)

\* the customFields list of the call, empty when the schema has none
ListedDefinitions ==
    IF Has(call.schema, "customFields") THEN call.schema.customFields ELSE <<>>

\* the positions of the definitions no later definition shadows
LastPositions(defs) ==
    {i \in 1..Len(defs) : \A j \in (i + 1)..Len(defs) : defs[j].createdAt # defs[i].createdAt}

\* the list without the definitions that a later one shadows
WithoutShadowed(defs) ==
    [k \in 1..Cardinality(LastPositions(defs)) |-> defs[Nth(LastPositions(defs), k)]]

\* C15: the pool built from the customFields list has exactly the listed
\* identifiers as keys and, for each, the last definition listed with it, so
\* the conversion is the conversion over the list without the shadowed
\* definitions; a schema without a customFields list has the empty pool and
\* converts as with an empty list.
C15_LastDefinitionWins ==
    IsSchemaCall =>
        LET defs == ListedDefinitions
            map == customFieldMapOfCall
            out == Unwrap(result)
        IN /\ DOMAIN map = {defs[i].createdAt : i \in 1..Len(defs)}
           /\ \A i \in LastPositions(defs) : map[defs[i].createdAt] = defs[i]
           /\ out = toJsonSchema([apiFields |-> call.schema.apiFields,
                                  customFields |-> WithoutShadowed(defs)],
                                 call.options)
           /\ ~Has(call.schema, "customFields") =>
                 /\ map = EmptyRecord
                 /\ out = toJsonSchema([apiFields |-> call.schema.apiFields,
                                        customFields |-> <<>>],
                                       call.options)

\* cf-a is listed twice, first with a field and then with none, and the
\* custom field that references it was expanded over the second definition
C15_Witness ==
    /\ IsSchemaCall
    /\ call.schema.apiFields = <<ChildField>>
    /\ Get(call.schema, "customFields")
           = Some(<<Definition("cf-a", <<TitleField>>), Definition("cf-a", <<>>)>>)
    /\ WithoutExtensions(ObjGet(Unwrap(result).properties, "child"))
           = [type |-> "object", properties |-> <<>>]

----------------------------------------------------------------------------
(* C16 *)

\* the positions of the list whose identifier is in the pool
PoolPositions(list, map) == {n \in 1..Len(list) : Has(map, list[n])}

\* node converts a repeater over `list` under `path`: one alternative per
\* listed identifier of the pool, those on the path being {type: "object"}
KeepsEntriesOnPath(node, list, map, path) ==
    LET positions == PoolPositions(list, map)
        alts == Alternatives(node)
    IN /\ node.type = "array"
       /\ Len(alts) = Cardinality(positions)
       /\ Has(node, "items") <=> positions # {}
       /\ \A k \in 1..Len(alts) :
             list[Nth(positions, k)] \in path => alts[k] = [type |-> "object"]
       /\ (Len(list) = 1 /\ list[1] \in path) =>
             node = [type |-> "array", items |-> [type |-> "object"]]

\* C16: in a repeater a listed identifier that is on the resolution path is
\* kept, as the alternative {type: "object"}; only the identifiers absent
\* from the pool are dropped; a repeater under definition D that lists only
\* D converts to {type: "array", items: {type: "object"}}.  Checked of the
\* conversion of the repeater on every path of the pool, and of the repeater
\* properties inside the definition a top-level custom field expands.
C16_RepeaterKeepsCycles ==
    IsSchemaCall =>
        LET map == customFieldMapOfCall
            opts == call.options
            fields == call.schema.apiFields
            out == Unwrap(result)
        IN /\ \A i \in 1..Len(fields) :
                 fields[i].kind = "repeater" =>
                    \A path \in Paths(map) :
                        KeepsEntriesOnPath(
                            convertRepeater(fields[i].customFieldCreatedAtList, map, path, opts),
                            fields[i].customFieldCreatedAtList, map, path)
           /\ \A i \in 1..Len(fields) :
                 (/\ fields[i].kind = "custom"
                  /\ KeepsItsKey(fields, i)
                  /\ Has(map, fields[i].customFieldCreatedAt)) =>
                     LET d == fields[i].customFieldCreatedAt
                         inner == map[d].fields
                         node == ObjGet(out.properties, fields[i].fieldId)
                     IN \A j \in 1..Len(inner) :
                           (inner[j].kind = "repeater" /\ KeepsItsKey(inner, j)) =>
                              KeepsEntriesOnPath(
                                  WithoutExtensions(ObjGet(node.properties, inner[j].fieldId)),
                                  inner[j].customFieldCreatedAtList, map, {d})

\* the definition cf-a holds a repeater that lists cf-b, absent from the
\* pool, and cf-a itself: expanded under cf-a, the repeater keeps one
\* alternative, {type: "object"}
C16_Witness ==
    /\ IsSchemaCall
    /\ call.schema.apiFields = <<ChildField>>
    /\ Get(call.schema, "customFields") = Some(<<Definition("cf-a", <<BlocksField>>)>>)
    /\ ~ExtensionsOn(call.options)
    /\ ObjGet(ObjGet(Unwrap(result).properties, "child").properties, "title")
           = [type |-> "array", items |-> [type |-> "object"]]
    /\ convertRepeater(<<"cf-a">>, customFieldMapOfCall, {"cf-a"}, call.options)
           = [type |-> "array", items |-> [type |-> "object"]]

====
